---------------------------- MODULE Spec2Model ----------------------------
(***************************************************************************)
(* Model of src/src/main.rs: a Bevy application in which dots are spawned  *)
(* under the cursor while the left mouse button is held, move with their   *)
(* velocity, bounce off the window edges and are connected by a line when  *)
(* they are closer than connect_force.                                     *)
(*                                                                         *)
(* One frame is one run of the Update schedule.  The seven systems of      *)
(* main() are the steps of a frame.  Only the chain                        *)
(* (apply_dot_velocity, apply_dot_collision, connect_dot) is ordered; the  *)
(* other systems are added without ordering constraints, so the scheduler  *)
(* may run them in any order: the model lets any ready system take the     *)
(* next step.  Commands (spawn, despawn) are deferred: they are queued by  *)
(* the system and applied when the schedule ends.                          *)
(*                                                                         *)
(* Units.  Positions, window sizes and connect_force are in pixels, time   *)
(* in milliseconds, velocities in pixels per second.  speed is kept in     *)
(* units of 0.04 (the step of the U/J keys), so 1.0 is SpeedDen = 25.      *)
(* f32 arithmetic is modelled on integers: a motion step is rounded down   *)
(* to a whole pixel, a distance to 1/DistScale pixel.                      *)
(***************************************************************************)
EXTENDS Integers, Sequences, FiniteSets, TLC

(***************************************************************************)
(* Program constants (main.rs lines 14-24).                                *)
(***************************************************************************)
SpeedDen == 25
CONNECT_FORCE == 300
SPEED == 1 * SpeedDen
DOT_SIZE == 6
MIN_VEL == -600
MAX_VEL == 600
DRAG_SPAWN_INTERVAL == 70
ratio == 2
MsPerSec == 1000
DistScale == 10

(***************************************************************************)
(* Bounds of the model.                                                    *)
(***************************************************************************)
MaxFrames == 2
MaxGateFrames == 3
MaxSysDots == 3
MaxSysSteps == 2
MaxKeyFrames == 3
MaxChainDots == 2
MaxChainFrames == 1

Systems ==
  {"spawn_dots_on_cursor", "clear_dots", "handle_keyboard_input",
   "update_info_text", "apply_dot_velocity", "apply_dot_collision",
   "connect_dot"}

Neg(v) == 0 - v

(***************************************************************************)
(* on_timer(Duration::from_millis(DRAG_SPAWN_INTERVAL)): a repeating Timer *)
(* ticked by the frame's delta each time the condition is evaluated.  On   *)
(* expiry the timer keeps the remainder (elapsed modulo the duration) and  *)
(* just_finished() is true, however many times it wrapped in the tick.     *)
(***************************************************************************)
\* Variant: the timer is not rewound on expiry.
timer_tick_no_reset(elapsed, dt) == elapsed + dt

timer_tick(elapsed, dt) == (elapsed + dt) % DRAG_SPAWN_INTERVAL

\* Variant: an expiry exactly at the duration is missed.
timer_just_finished_strict(elapsed, dt) == (elapsed + dt) > DRAG_SPAWN_INTERVAL

timer_just_finished(elapsed, dt) == (elapsed + dt) >= DRAG_SPAWN_INTERVAL

(***************************************************************************)
(* distance_between_points: sqrt of the squared distance, in 1/DistScale   *)
(* pixel, rounded down.                                                    *)
(***************************************************************************)
RECURSIVE SqrtSearch(_, _, _)
SqrtSearch(n, lo, hi) ==
  IF lo >= hi THEN lo
  ELSE LET mid == (lo + hi + 1) \div 2
       IN  IF mid * mid <= n THEN SqrtSearch(n, mid, hi)
           ELSE SqrtSearch(n, lo, mid - 1)

RECURSIVE SqrtUpper(_, _)
SqrtUpper(n, h) == IF h * h > n THEN h ELSE SqrtUpper(n, 2 * h)

sqrt(n) == SqrtSearch(n, 0, SqrtUpper(n, 1))

DistSq(p1, p2) ==
  (p2.x - p1.x) * (p2.x - p1.x) + (p2.y - p1.y) * (p2.y - p1.y)

distance_between_points(p1, p2) == sqrt(DistSq(p1, p2) * DistScale * DistScale)

(***************************************************************************)
(* map: a linear map of value from [from_low, from_high] to                *)
(* [to_low, to_high].  The result is the fraction <<num, den>>.            *)
(***************************************************************************)
map(value, from_low, from_high, to_low, to_high) ==
  << to_low * (from_high - from_low) + (to_high - to_low) * (value - from_low),
     from_high - from_low >>


(***************************************************************************)
(* connect_dot: query.iter_combinations() yields every combination of two  *)
(* distinct dots once, in the order of the query; a line is drawn for a    *)
(* combination when dist < connect_force, with alpha = map(dist, 0,        *)
(* connect_force, 1, 0).  The result is the sequence of gizmos.line_2d     *)
(* calls.                                                                  *)
(***************************************************************************)
RECURSIVE iter_combinations(_, _, _)
iter_combinations(n, i, j) ==
  IF i >= n THEN << >>
  ELSE IF j > n THEN iter_combinations(n, i + 1, i + 2)
  ELSE << <<i, j>> >> \o iter_combinations(n, i, j + 1)

Translation(dot) == [x |-> dot.x, y |-> dot.y]

\* Variant: a pair exactly connect_force apart is connected.
is_connected_inclusive(dist, connect_force) == dist <= connect_force * DistScale

\* Variant: the magnitude of connect_force is compared.
is_connected_magnitude(dist, connect_force) ==
  dist < (IF connect_force < 0 THEN Neg(connect_force) ELSE connect_force) * DistScale

is_connected(dist, connect_force) == dist < connect_force * DistScale

line_alpha(dist, connect_force) == map(dist, 0, connect_force * DistScale, 1, 0)

RECURSIVE draw_lines(_, _, _)
draw_lines(ds, conf, combos) ==
  IF combos = << >> THEN << >>
  ELSE LET c    == Head(combos)
           d1   == Translation(ds[c[1]])
           d2   == Translation(ds[c[2]])
           dist == distance_between_points(d1, d2)
       IN  (IF is_connected(dist, conf.connect_force)
              THEN << [a |-> c[1], b |-> c[2], from |-> d1, to |-> d2,
                       alpha |-> line_alpha(dist, conf.connect_force)] >>
              ELSE << >>)
           \o draw_lines(ds, conf, Tail(combos))

connect_dot(ds, conf) == draw_lines(ds, conf, iter_combinations(Len(ds), 1, 2))

(***************************************************************************)
(* clear_dots: queues a despawn for every dot the query sees and resets    *)
(* number_of_dots.                                                         *)
(***************************************************************************)
clear_dots_despawns(ds) == DOMAIN ds

clear_dots_conf(conf) == [conf EXCEPT !.number_of_dots = 0]

(***************************************************************************)
(* spawn_dots_on_cursor.  cursor is what the system reads when it runs:    *)
(* cursor.kind is "none" when the cursor is outside the window             *)
(* (cursor_position() is None), "unresolved" when viewport_to_world_2d     *)
(* fails, "ok" when it yields the world position (cursor.x, cursor.y).     *)
(* r_x, r_y are the two draws of the generator.                            *)
(***************************************************************************)
\* Variant: the range includes its upper end.
gen_range_inclusive(samples, lo, hi) == {v \in samples : lo <= v /\ v <= hi}

gen_range(samples, lo, hi) == {v \in samples : lo <= v /\ v < hi}

cursor_resolved(cursor) == cursor.kind = "ok"

spawn_dots_on_cursor_spawns(conf, cursor, r_x, r_y) ==
  IF cursor_resolved(cursor)
    THEN << [x |-> cursor.x, y |-> cursor.y, vx |-> r_x, vy |-> r_y,
             radius |-> conf.dot_size] >>
    ELSE << >>

\* Variant: number_of_dots is counted before the cursor is looked up.
spawn_dots_on_cursor_conf_always(conf, cursor) ==
  [conf EXCEPT !.number_of_dots = @ + 1]

spawn_dots_on_cursor_conf(conf, cursor) ==
  IF cursor_resolved(cursor)
    THEN [conf EXCEPT !.number_of_dots = @ + 1]
    ELSE conf

(***************************************************************************)
(* apply_dot_velocity.                                                     *)
(***************************************************************************)
motion_step(v, speed, dt) == (v * speed * dt) \div (SpeedDen * MsPerSec)

\* Variant: freeze_dots is not consulted.
apply_dot_velocity_unfrozen(ds, conf, dt) ==
  [i \in DOMAIN ds |->
     [ds[i] EXCEPT !.x = @ + motion_step(ds[i].vx, conf.speed, dt),
                   !.y = @ + motion_step(ds[i].vy, conf.speed, dt)]]

apply_dot_velocity(ds, conf, dt) ==
  IF conf.freeze_dots THEN ds
  ELSE [i \in DOMAIN ds |->
          [ds[i] EXCEPT !.x = @ + motion_step(ds[i].vx, conf.speed, dt),
                        !.y = @ + motion_step(ds[i].vy, conf.speed, dt)]]

(***************************************************************************)
(* apply_dot_collision: one axis, then the dot, then every dot.            *)
(***************************************************************************)
\* Variant: a dot exactly on an edge is not reflected.
collide_axis_strict(pos, vel, half) ==
  IF pos > half THEN [pos |-> half, vel |-> Neg(vel)]
  ELSE IF pos < Neg(half) THEN [pos |-> Neg(half), vel |-> Neg(vel)]
  ELSE [pos |-> pos, vel |-> vel]

\* Variant: a reflection halves the velocity component.
collide_axis_damped(pos, vel, half) ==
  IF pos >= half THEN [pos |-> half, vel |-> Neg(vel) \div 2]
  ELSE IF pos <= Neg(half) THEN [pos |-> Neg(half), vel |-> Neg(vel) \div 2]
  ELSE [pos |-> pos, vel |-> vel]

collide_axis(pos, vel, half) ==
  IF pos >= half THEN [pos |-> half, vel |-> Neg(vel)]
  ELSE IF pos <= Neg(half) THEN [pos |-> Neg(half), vel |-> Neg(vel)]
  ELSE [pos |-> pos, vel |-> vel]

collide_dot(dot, win) ==
  LET cx == collide_axis(dot.x, dot.vx, win.width \div ratio)
      cy == collide_axis(dot.y, dot.vy, win.height \div ratio)
  IN  [dot EXCEPT !.x = cx.pos, !.vx = cx.vel, !.y = cy.pos, !.vy = cy.vel]

apply_dot_collision(ds, win) == [i \in DOMAIN ds |-> collide_dot(ds[i], win)]

(***************************************************************************)
(* handle_keyboard_input: the held keys, then the two edge keys.           *)
(***************************************************************************)
KeyCodes == {"KeyI", "KeyK", "KeyU", "KeyJ", "KeyR", "KeyP", "Escape", "Space"}

\* Variant: KeyP is read with pressed(), as the held keys are.
handle_keyboard_input_held_freeze(conf, pressed, just_pressed) ==
  LET c1 == IF "KeyI" \in pressed
              THEN [conf EXCEPT !.connect_force = @ + 2] ELSE conf
      c2 == IF "KeyK" \in pressed
              THEN [c1 EXCEPT !.connect_force = @ - 2] ELSE c1
      c3 == IF "KeyU" \in pressed THEN [c2 EXCEPT !.speed = @ + 1] ELSE c2
      c4 == IF "KeyJ" \in pressed THEN [c3 EXCEPT !.speed = @ - 1] ELSE c3
      c5 == IF "KeyR" \in just_pressed
              THEN [c4 EXCEPT !.speed = @ * (-1)] ELSE c4
      c6 == IF "KeyP" \in pressed
              THEN [c5 EXCEPT !.freeze_dots = ~@] ELSE c5
  IN  c6

\* Variant: KeyR is read with pressed(), as the held keys are.
handle_keyboard_input_held_reverse(conf, pressed, just_pressed) ==
  LET c1 == IF "KeyI" \in pressed
              THEN [conf EXCEPT !.connect_force = @ + 2] ELSE conf
      c2 == IF "KeyK" \in pressed
              THEN [c1 EXCEPT !.connect_force = @ - 2] ELSE c1
      c3 == IF "KeyU" \in pressed THEN [c2 EXCEPT !.speed = @ + 1] ELSE c2
      c4 == IF "KeyJ" \in pressed THEN [c3 EXCEPT !.speed = @ - 1] ELSE c3
      c5 == IF "KeyR" \in pressed
              THEN [c4 EXCEPT !.speed = @ * (-1)] ELSE c4
      c6 == IF "KeyP" \in just_pressed
              THEN [c5 EXCEPT !.freeze_dots = ~@] ELSE c5
  IN  c6

handle_keyboard_input(conf, pressed, just_pressed) ==
  LET c1 == IF "KeyI" \in pressed
              THEN [conf EXCEPT !.connect_force = @ + 2] ELSE conf
      c2 == IF "KeyK" \in pressed
              THEN [c1 EXCEPT !.connect_force = @ - 2] ELSE c1
      c3 == IF "KeyU" \in pressed THEN [c2 EXCEPT !.speed = @ + 1] ELSE c2
      c4 == IF "KeyJ" \in pressed THEN [c3 EXCEPT !.speed = @ - 1] ELSE c3
      c5 == IF "KeyR" \in just_pressed
              THEN [c4 EXCEPT !.speed = @ * (-1)] ELSE c4
      c6 == IF "KeyP" \in just_pressed
              THEN [c5 EXCEPT !.freeze_dots = ~@] ELSE c5
  IN  c6

handle_keyboard_exit(pressed) == "Escape" \in pressed

(***************************************************************************)
(* update_info_text: the pieces of the formatted status line.              *)
(***************************************************************************)
update_info_text(conf) ==
  << "Dot (Click/Space): ", conf.number_of_dots,
     " | Connect Force (I/K) : ", conf.connect_force,
     " | Speed (U/J): ", conf.speed >>

(***************************************************************************)
(* State.                                                                  *)
(*   dots          the Dot entities, in query order: position, velocity    *)
(*   simu_conf     the SimuConf resource                                   *)
(*   timer         elapsed ms of on_timer's repeating Timer                *)
(*   window        the window's resolution                                 *)
(*   input         this frame's delta, mouse button and keys               *)
(*   pc            "idle" between frames, "update" while the systems run   *)
(*   done          the systems that have had their turn in this frame      *)
(*   spawn_queue   dots queued for spawning by Commands                    *)
(*   despawn_queue dots (indices of dots) queued for despawning            *)
(*   lines         the gizmos lines drawn in this frame                    *)
(*   info_text     the value of the InfoText section                       *)
(*   app_exit      an AppExit event has been sent                          *)
(*   frame         number of frames begun                                  *)
(*   hist          history kept to state the timing claims: clock is the   *)
(*                 sum of the deltas; hold the clock values of the spawns  *)
(*                 made since the mouse button was last seen released;     *)
(*                 run_ms the deltas summed over the current run of frames *)
(*                 with the button held, no clear and no gated tick with   *)
(*                 an unresolved cursor; run_spawns the spawns of that     *)
(*                 run; run_base number_of_dots when the run began;        *)
(*                 run_max the longest delta of the run; cursor what       *)
(*                 spawn_dots_on_cursor read in this frame ("-" when it    *)
(*                 has not run); misses whether a run of it has so far     *)
(*                 found no cursor position; cursor_at the world position  *)
(*                 it read in this frame; born the velocity each dot of    *)
(*                 the registry had when it was spawned; keys the sets of keys held in *)
(*                 the frames of the keyboard specification, keys_conf the *)
(*                 configuration it began with                             *)
(***************************************************************************)
VARIABLES dots, simu_conf, timer, window, input, pc, done, spawn_queue,
          despawn_queue, lines, info_text, app_exit, frame, hist

vars == << dots, simu_conf, timer, window, input, pc, done, spawn_queue,
           despawn_queue, lines, info_text, app_exit, frame, hist >>

InitConf ==
  [dot_size |-> DOT_SIZE, speed |-> SPEED, min_vel |-> MIN_VEL,
   max_vel |-> MAX_VEL, connect_force |-> CONNECT_FORCE,
   freeze_dots |-> FALSE, number_of_dots |-> 0]

InitHist ==
  [clock |-> 0, hold |-> << >>, run_ms |-> 0, run_spawns |-> 0,
   run_base |-> 0, run_max |-> 0, cursor |-> "-", misses |-> FALSE,
   keys |-> << >>, keys_conf |-> InitConf, cursor_at |-> [x |-> 0, y |-> 0],
   born |-> << >>]

NoInput == [delta |-> 0, mouse |-> FALSE, pressed |-> {}, just_pressed |-> {}]

(***************************************************************************)
(* The inputs the environment offers: window sizes, frame deltas (ms),     *)
(* samples of the random generator, cursor states, sets of held keys.      *)
(***************************************************************************)
Windows == {[width |-> 800, height |-> 600]}

Deltas == {35, 70, 140}

VelSamples == {MIN_VEL, 300, MAX_VEL}

GateVelSamples == {300}

GateCursors(win) ==
  { [kind |-> "none", x |-> 0, y |-> 0],
    [kind |-> "unresolved", x |-> 0, y |-> 0],
    [kind |-> "ok", x |-> 0, y |-> 0] }

Cursors(win) ==
  GateCursors(win)
    \cup {[kind |-> "ok", x |-> Neg(win.width \div ratio), y |-> win.height \div ratio]}

KeySets == { {}, {"KeyP"}, {"Space"}, {"KeyR"}, {"Escape"} }

GateKeySets == { {}, {"Space"} }

Init ==
  /\ dots = << >>
  /\ simu_conf = InitConf
  /\ timer = 0
  /\ window \in Windows
  /\ input = NoInput
  /\ pc = "idle"
  /\ done = {}
  /\ spawn_queue = << >>
  /\ despawn_queue = {}
  /\ lines = << >>
  /\ info_text = << "info text" >>
  /\ app_exit = FALSE
  /\ frame = 0
  /\ hist = InitHist

(***************************************************************************)
(* The run conditions of main(): spawn_dots_on_cursor runs when on_timer   *)
(* and input_pressed(MouseButton::Left) both hold, and both are evaluated  *)
(* in every frame (the timer ticks whether or not the button is held);     *)
(* clear_dots runs when Space was just pressed.  The conditions read only  *)
(* the frame's delta and inputs, so they are settled when the frame        *)
(* begins: a system whose condition is false has had its turn.             *)
(***************************************************************************)
\* Variant: the button is not consulted.
spawn_run_if_unheld(elapsed, dt, mouse) == timer_just_finished(elapsed, dt)

spawn_run_if(elapsed, dt, mouse) == timer_just_finished(elapsed, dt) /\ mouse

clear_run_if(just_pressed) == "Space" \in just_pressed

Skipped(elapsed, dt, mouse, just_pressed) ==
  (IF spawn_run_if(elapsed, dt, mouse) THEN {} ELSE {"spawn_dots_on_cursor"})
    \cup (IF clear_run_if(just_pressed) THEN {} ELSE {"clear_dots"})

(***************************************************************************)
(* A frame begins: the engine reads the window, the time and the inputs.   *)
(* A key is just pressed when it is held now and was not held in the       *)
(* previous frame.                                                         *)
(***************************************************************************)
InRun(mouse, just) == mouse /\ "Space" \notin just

Max(a, b) == IF a >= b THEN a ELSE b

BeginHist(h, dt, mouse, just, count) ==
  [clock      |-> h.clock + dt,
   hold       |-> IF mouse THEN h.hold ELSE << >>,
   run_ms     |-> IF InRun(mouse, just) THEN h.run_ms + dt ELSE 0,
   run_spawns |-> IF InRun(mouse, just) THEN h.run_spawns ELSE 0,
   run_max    |-> IF InRun(mouse, just) THEN Max(h.run_max, dt) ELSE 0,
   run_base   |-> IF InRun(mouse, just) /\ h.run_ms > 0 THEN h.run_base ELSE count,
   cursor     |-> "-",
   misses     |-> h.misses,
   keys       |-> h.keys,
   keys_conf  |-> h.keys_conf,
   cursor_at  |-> [x |-> 0, y |-> 0],
   born       |-> h.born]

BeginFrame(deltas, keysets, maxFrames) ==
  /\ pc = "idle"
  /\ ~app_exit
  /\ frame < maxFrames
  /\ \E w \in Windows, dt \in deltas, mouse \in BOOLEAN, ks \in keysets :
       LET just == ks \ input.pressed
       IN  /\ window' = w
           /\ input' = [delta |-> dt, mouse |-> mouse, pressed |-> ks,
                        just_pressed |-> just]
           /\ timer' = timer_tick(timer, dt)
           /\ done' = Skipped(timer, dt, mouse, just)
           /\ hist' = BeginHist(hist, dt, mouse, just, simu_conf.number_of_dots)
  /\ pc' = "update"
  /\ lines' = << >>
  /\ frame' = frame + 1
  /\ UNCHANGED << dots, simu_conf, spawn_queue, despawn_queue, info_text,
                  app_exit >>

(***************************************************************************)
(* The scheduler: a system has one turn per frame; the chain orders        *)
(* apply_dot_velocity, apply_dot_collision and connect_dot.                *)
(***************************************************************************)
\* Variant: the three systems are added without chain().
Before_unchained(s) == {}

Before(s) ==
  CASE s = "apply_dot_collision" -> {"apply_dot_velocity"}
    [] s = "connect_dot"         -> {"apply_dot_velocity", "apply_dot_collision"}
    [] OTHER                     -> {}

Ready(s) == pc = "update" /\ s \notin done /\ Before(s) \subseteq done

Turn(s) ==
  /\ Ready(s)
  /\ done' = done \cup {s}
  /\ UNCHANGED << pc, frame, window, input, timer >>

SpawnHist(h, cursor, count) ==
  IF cursor_resolved(cursor)
    THEN [h EXCEPT !.hold = Append(@, h.clock),
                   !.run_spawns = IF h.run_ms > 0 THEN @ + 1 ELSE @,
                   !.cursor = cursor.kind,
                   !.cursor_at = [x |-> cursor.x, y |-> cursor.y]]
    ELSE [h EXCEPT !.run_ms = 0, !.run_spawns = 0, !.run_max = 0,
                   !.run_base = count, !.cursor = cursor.kind,
                   !.misses = TRUE]

SpawnDotsOnCursor(samples, cursors) ==
  /\ Turn("spawn_dots_on_cursor")
  /\ \E cursor \in cursors,
        r_x \in gen_range(samples, simu_conf.min_vel, simu_conf.max_vel),
        r_y \in gen_range(samples, simu_conf.min_vel, simu_conf.max_vel) :
       LET spawns == spawn_dots_on_cursor_spawns(simu_conf, cursor, r_x, r_y)
       IN  /\ spawn_queue' = spawn_queue \o spawns
           /\ simu_conf' = spawn_dots_on_cursor_conf(simu_conf, cursor)
           /\ hist' = SpawnHist(hist, cursor, simu_conf.number_of_dots)
  /\ UNCHANGED << dots, despawn_queue, lines, info_text, app_exit >>

ClearDots ==
  /\ Turn("clear_dots")
  /\ despawn_queue' = despawn_queue \cup clear_dots_despawns(dots)
  /\ simu_conf' = clear_dots_conf(simu_conf)
  /\ UNCHANGED << dots, spawn_queue, lines, info_text, app_exit, hist >>

HandleKeyboardInput ==
  /\ Turn("handle_keyboard_input")
  /\ simu_conf' = handle_keyboard_input(simu_conf, input.pressed, input.just_pressed)
  /\ app_exit' = (app_exit \/ handle_keyboard_exit(input.pressed))
  /\ UNCHANGED << dots, spawn_queue, despawn_queue, lines, info_text, hist >>

UpdateInfoText ==
  /\ Turn("update_info_text")
  /\ info_text' = update_info_text(simu_conf)
  /\ UNCHANGED << dots, simu_conf, spawn_queue, despawn_queue, lines,
                  app_exit, hist >>

ApplyDotVelocity ==
  /\ Turn("apply_dot_velocity")
  /\ dots' = apply_dot_velocity(dots, simu_conf, input.delta)
  /\ UNCHANGED << simu_conf, spawn_queue, despawn_queue, lines, info_text,
                  app_exit, hist >>

ApplyDotCollision ==
  /\ Turn("apply_dot_collision")
  /\ dots' = apply_dot_collision(dots, window)
  /\ UNCHANGED << simu_conf, spawn_queue, despawn_queue, lines, info_text,
                  app_exit, hist >>

ConnectDot ==
  /\ Turn("connect_dot")
  /\ lines' = connect_dot(dots, simu_conf)
  /\ UNCHANGED << dots, simu_conf, spawn_queue, despawn_queue, info_text,
                  app_exit, hist >>

(***************************************************************************)
(* The schedule ends: the queued commands are applied.                     *)
(***************************************************************************)
RECURSIVE Remaining(_, _, _)
Remaining(ds, gone, i) ==
  IF i > Len(ds) THEN << >>
  ELSE (IF i \in gone THEN << >> ELSE << ds[i] >>) \o Remaining(ds, gone, i + 1)

apply_deferred(ds, gone, spawns) == Remaining(ds, gone, 1) \o spawns

BornOf(ds) == [i \in DOMAIN ds |-> << ds[i].vx, ds[i].vy >>]

EndFrame ==
  /\ pc = "update"
  /\ done = Systems
  /\ dots' = apply_deferred(dots, despawn_queue, spawn_queue)
  /\ hist' = [hist EXCEPT
                !.born = apply_deferred(@, despawn_queue, BornOf(spawn_queue))]
  /\ spawn_queue' = << >>
  /\ despawn_queue' = {}
  /\ pc' = "idle"
  /\ UNCHANGED << simu_conf, timer, window, input, done, lines, info_text,
                  app_exit, frame >>

RunSystems ==
  \/ ClearDots
  \/ HandleKeyboardInput
  \/ UpdateInfoText
  \/ ApplyDotVelocity
  \/ ApplyDotCollision
  \/ ConnectDot
  \/ EndFrame

Next ==
  \/ BeginFrame(Deltas, KeySets, MaxFrames)
  \/ SpawnDotsOnCursor(VelSamples, Cursors(window))
  \/ RunSystems

Spec == Init /\ [][Next]_vars

(***************************************************************************)
(* The same program with the keyboard left alone but for the space key and *)
(* a single velocity sample, over more frames: for the timing of spawns.   *)
(***************************************************************************)
NextGate ==
  \/ BeginFrame(Deltas, GateKeySets, MaxGateFrames)
  \/ SpawnDotsOnCursor(GateVelSamples, GateCursors(window))
  \/ RunSystems

SpecGate == Init /\ [][NextGate]_vars

(***************************************************************************)
(* The systems of the chain as functions of the registry: the initial      *)
(* state draws the dots, the configuration and the window, and each step   *)
(* applies one system once (done names the system last applied).           *)
(***************************************************************************)
SysSamples ==
  { [x |-> 0,    y |-> 0,    vx |-> 300,  vy |-> -600, radius |-> DOT_SIZE],
    [x |-> 401,  y |-> 0,    vx |-> 5,    vy |-> 300,  radius |-> DOT_SIZE],
    [x |-> 400,  y |-> 300,  vx |-> -600, vy |-> 300,  radius |-> DOT_SIZE],
    [x |-> -400, y |-> -301, vx |-> 300,  vy |-> 300,  radius |-> DOT_SIZE],
    [x |-> -401, y |-> 301,  vx |-> -600, vy |-> -600, radius |-> DOT_SIZE],
    [x |-> 0,    y |-> -300, vx |-> 300,  vy |-> -600, radius |-> DOT_SIZE] }

SysDots == UNION {[1..n -> SysSamples] : n \in 0..MaxSysDots}

SysConfs ==
  { [InitConf EXCEPT !.connect_force = cf, !.speed = sp, !.freeze_dots = fr] :
      cf \in {-2, CONNECT_FORCE, 2 * CONNECT_FORCE},
      sp \in {SPEED, Neg(SPEED + 1)},
      fr \in BOOLEAN }

SysDeltas == {35, 140}

InitSys ==
  /\ dots \in SysDots
  /\ simu_conf \in {[c EXCEPT !.number_of_dots = Len(dots)] : c \in SysConfs}
  /\ timer = 0
  /\ window \in Windows
  /\ input = NoInput
  /\ pc = "system"
  /\ done = {}
  /\ spawn_queue = << >>
  /\ despawn_queue = {}
  /\ lines = << >>
  /\ info_text = << "info text" >>
  /\ app_exit = FALSE
  /\ frame = 0
  /\ hist = InitHist

Apply(s) ==
  /\ pc = "system"
  /\ frame < MaxSysSteps
  /\ frame' = frame + 1
  /\ done' = {s}
  /\ UNCHANGED << simu_conf, timer, window, pc, spawn_queue, despawn_queue,
                  info_text, app_exit, hist >>

SysApplyDotVelocity ==
  /\ Apply("apply_dot_velocity")
  /\ \E dt \in SysDeltas :
       /\ input' = [input EXCEPT !.delta = dt]
       /\ dots' = apply_dot_velocity(dots, simu_conf, dt)
  /\ UNCHANGED lines

SysApplyDotCollision ==
  /\ Apply("apply_dot_collision")
  /\ dots' = apply_dot_collision(dots, window)
  /\ UNCHANGED << input, lines >>

SysConnectDot ==
  /\ Apply("connect_dot")
  /\ lines' = connect_dot(dots, simu_conf)
  /\ UNCHANGED << input, dots >>

NextSys == SysApplyDotVelocity \/ SysApplyDotCollision \/ SysConnectDot

SpecSys == InitSys /\ [][NextSys]_vars

(***************************************************************************)
(* The program taken up in the middle of a run: the registry holds dots    *)
(* left by earlier frames, some of them beyond the edges of the window as  *)
(* it is now (the window can be resized between frames), and the           *)
(* configuration is one the keyboard can have produced.  The frames are    *)
(* those of the whole program.                                             *)
(***************************************************************************)
ChainDots == UNION {[1..n -> SysSamples] : n \in 0..MaxChainDots}

ChainConfs == {c \in SysConfs : c.connect_force = 2 * CONNECT_FORCE}

InitChain ==
  /\ dots \in ChainDots
  /\ simu_conf \in {[c EXCEPT !.number_of_dots = Len(dots)] : c \in ChainConfs}
  /\ timer = 0
  /\ window \in Windows
  /\ input = NoInput
  /\ pc = "idle"
  /\ done = {}
  /\ spawn_queue = << >>
  /\ despawn_queue = {}
  /\ lines = << >>
  /\ info_text = << "info text" >>
  /\ app_exit = FALSE
  /\ frame = 0
  /\ hist = [InitHist EXCEPT !.born = BornOf(dots)]

NextChain ==
  \/ BeginFrame(SysDeltas, GateKeySets, MaxChainFrames)
  \/ SpawnDotsOnCursor(GateVelSamples, GateCursors(window))
  \/ RunSystems

SpecChain == InitChain /\ [][NextChain]_vars

(***************************************************************************)
(* handle_keyboard_input as a function of the configuration and the keys:  *)
(* the initial state draws the configuration, each frame draws the set of  *)
(* keys held, applies handle_keyboard_input and then connect_dot to the    *)
(* dots of the registry.  A key is just pressed when it is held in this    *)
(* frame and was not in the previous one.  No frame follows an AppExit.    *)
(***************************************************************************)
KeyboardKeys == KeyCodes \ {"Space"}

KeyboardSets == SUBSET KeyboardKeys

KeysConfs == {InitConf, [InitConf EXCEPT !.connect_force = 2, !.speed = 1]}

KeysDots ==
  << [x |-> 0, y |-> 0, vx |-> 300, vy |-> -600, radius |-> DOT_SIZE],
     [x |-> 0, y |-> 0, vx |-> -600, vy |-> 300, radius |-> DOT_SIZE],
     [x |-> 1, y |-> 0, vx |-> 300, vy |-> 300, radius |-> DOT_SIZE] >>

InitKeys ==
  /\ dots = KeysDots
  /\ simu_conf \in {[c EXCEPT !.number_of_dots = Len(dots)] : c \in KeysConfs}
  /\ timer = 0
  /\ window \in Windows
  /\ input = NoInput
  /\ pc = "keys"
  /\ done = {}
  /\ spawn_queue = << >>
  /\ despawn_queue = {}
  /\ lines = << >>
  /\ info_text = << "info text" >>
  /\ app_exit = FALSE
  /\ frame = 0
  /\ hist = [InitHist EXCEPT !.keys_conf = simu_conf]

KeysHandleKeyboardInput ==
  /\ pc = "keys"
  /\ done # {"handle_keyboard_input"}
  /\ ~app_exit
  /\ frame < MaxKeyFrames
  /\ \E ks \in KeyboardSets :
       LET just == ks \ input.pressed
       IN  /\ input' = [input EXCEPT !.pressed = ks, !.just_pressed = just]
           /\ simu_conf' = handle_keyboard_input(simu_conf, ks, just)
           /\ app_exit' = (app_exit \/ handle_keyboard_exit(ks))
           /\ hist' = [hist EXCEPT !.keys = Append(@, ks)]
  /\ frame' = frame + 1
  /\ done' = {"handle_keyboard_input"}
  /\ UNCHANGED << dots, timer, window, pc, spawn_queue, despawn_queue, lines,
                  info_text >>

KeysConnectDot ==
  /\ pc = "keys"
  /\ done = {"handle_keyboard_input"}
  /\ lines' = connect_dot(dots, simu_conf)
  /\ done' = {"connect_dot"}
  /\ UNCHANGED << dots, simu_conf, timer, window, input, pc, spawn_queue,
                  despawn_queue, info_text, app_exit, frame, hist >>

NextKeys == KeysHandleKeyboardInput \/ KeysConnectDot

SpecKeys == InitKeys /\ [][NextKeys]_vars

(***************************************************************************)
(*                               Claims                                    *)
(***************************************************************************)
FrameBoundary == pc = "idle"

Count == simu_conf.number_of_dots

\* C1: at every frame boundary, whatever mix of spawn, clear and keyboard
\* input fired in the frames so far (spawn and clear in the same frame
\* included), number_of_dots equals the number of dots in the registry.
C1_CountMatchesRegistry == FrameBoundary => Count = Len(dots)

\* C2: at the end of a frame in which clear_dots fired, the registry is
\* empty and number_of_dots is 0.
C2_ClearEmptiesRegistry ==
  (FrameBoundary /\ clear_run_if(input.just_pressed))
    => (dots = << >> /\ Count = 0)

SpawnOnlyWhileHeld == (spawn_queue # << >>) => input.mouse

\* C3 as stated: two successive spawns of a continuous hold are at least
\* DRAG_SPAWN_INTERVAL ms of frame time apart, and nothing is spawned in a
\* frame in which the button is not held.
C3_SpawnsIntervalApart ==
  /\ \A i \in 1..(Len(hist.hold) - 1) :
       hist.hold[i + 1] - hist.hold[i] >= DRAG_SPAWN_INTERVAL
  /\ SpawnOnlyWhileHeld

TimerPeriod(t) == t \div DRAG_SPAWN_INTERVAL

\* C3 as amended: two successive spawns of a continuous hold fall in
\* different periods of the repeating timer (periods of DRAG_SPAWN_INTERVAL
\* ms counted from the start of the application), so there is at most one
\* spawn per period; and nothing is spawned in a frame in which the button
\* is not held.
C3_OneSpawnPerTimerPeriod ==
  /\ \A i \in 1..(Len(hist.hold) - 1) :
       TimerPeriod(hist.hold[i + 1]) > TimerPeriod(hist.hold[i])
  /\ SpawnOnlyWhileHeld

\* C3 witness: two successive spawns of one hold, in different periods of
\* the timer and less than DRAG_SPAWN_INTERVAL ms apart.
C3_Witness ==
  \E i \in 1..(Len(hist.hold) - 1) :
    /\ hist.hold[i + 1] - hist.hold[i] < DRAG_SPAWN_INTERVAL
    /\ TimerPeriod(hist.hold[i + 1]) > TimerPeriod(hist.hold[i])

RunOf210 == FrameBoundary /\ hist.run_ms = 3 * DRAG_SPAWN_INTERVAL

\* C4 as stated: a run of frames with the button held and the cursor
\* resolved that adds up to 210 ms spawns exactly 3 dots and raises
\* number_of_dots by exactly 3, whatever the deltas of its frames.
C4_ThreeSpawnsIn210 ==
  RunOf210 => (hist.run_spawns = 3 /\ Count = hist.run_base + 3)

\* C4 as amended: such a run spawns at most 3 dots, one in each frame in
\* which the timer expires, and raises number_of_dots by the number
\* spawned; it spawns exactly 3 when none of its frames is longer than
\* DRAG_SPAWN_INTERVAL ms.
C4_AtMostThreeSpawnsIn210 ==
  RunOf210 =>
    /\ hist.run_spawns <= 3
    /\ Count = hist.run_base + hist.run_spawns
    /\ (hist.run_max <= DRAG_SPAWN_INTERVAL => hist.run_spawns = 3)

\* C4 witness: a run of 210 ms made of frames of at most 70 ms, with its 3
\* spawns.
C4_Witness ==
  /\ RunOf210
  /\ hist.run_max <= DRAG_SPAWN_INTERVAL
  /\ hist.run_spawns = 3
  /\ Count = hist.run_base + 3

FixedOrder ==
  << "handle_keyboard_input", "spawn_dots_on_cursor", "apply_dot_velocity",
     "apply_dot_collision", "connect_dot", "update_info_text" >>

EarlierInOrder(s) ==
  {FixedOrder[i] : i \in {i \in DOMAIN FixedOrder :
                            \E j \in DOMAIN FixedOrder :
                              FixedOrder[j] = s /\ i < j}}

\* C5: in every frame the systems take their turns in the order input
\* handling, spawning, motion, reflection, connection, status: a system has
\* its turn only after every system that precedes it in this order.
C5_FixedOrder ==
  [][(pc = "update" /\ pc' = "update")
       => \A s \in done' \ done : EarlierInOrder(s) \subseteq done]_vars

NothingSpawnedOrCleared ==
  /\ {"spawn_dots_on_cursor", "clear_dots"} \subseteq done
  /\ spawn_queue = << >>
  /\ despawn_queue = {}

\* C6: in a frame in which freeze_dots is true throughout and neither
\* spawn nor clear fires, no step changes the position or the velocity of
\* any dot, a dot lying exactly on a window edge included.
C6_FrozenFrameVacuous ==
  [][(/\ pc = "update"
      /\ simu_conf.freeze_dots
      /\ "KeyP" \notin input.just_pressed
      /\ NothingSpawnedOrCleared)
       => dots' = dots]_vars

Applied(s) == pc = "system" /\ done' = {s} /\ frame' = frame + 1

SameVelocity(d, e) == d.vx = e.vx /\ d.vy = e.vy

SamePosition(d, e) == d.x = e.x /\ d.y = e.y

\* C7: an application of apply_dot_velocity leaves every position as it
\* was when freeze_dots is true, whatever the delta and the speed and
\* however often it is applied, and never changes a velocity.
C7_IntegratorFrozen ==
  [][Applied("apply_dot_velocity")
       => /\ Len(dots') = Len(dots)
          /\ \A i \in DOMAIN dots :
               /\ SameVelocity(dots'[i], dots[i])
               /\ simu_conf.freeze_dots => SamePosition(dots'[i], dots[i])]_vars

\* C7 witness: apply_dot_velocity applied a second time with freeze_dots
\* true and dots in the registry.
C7_Witness ==
  /\ pc = "system"
  /\ done = {"apply_dot_velocity"}
  /\ frame >= 2
  /\ simu_conf.freeze_dots
  /\ dots # << >>

Reflected(pos, vel, pos2, vel2, half) ==
  /\ pos >= half => (pos2 = half /\ vel2 = Neg(vel))
  /\ pos <= Neg(half) => (pos2 = Neg(half) /\ vel2 = Neg(vel))
  /\ (Neg(half) < pos /\ pos < half) => (pos2 = pos /\ vel2 = vel)

\* C8: one application of apply_dot_collision maps, on each axis and
\* whatever the other axis does, a position at or beyond +half to +half
\* and one at or beyond -half to -half, the velocity component negated
\* once, and leaves a position strictly inside and its velocity as they
\* were (x = 401, vx = 5, width 800 gives x = 400, vx = -5).
C8_ReflectorPerAxis ==
  [][Applied("apply_dot_collision")
       => /\ Len(dots') = Len(dots)
          /\ \A i \in DOMAIN dots :
               /\ Reflected(dots[i].x, dots[i].vx, dots'[i].x, dots'[i].vx,
                            window.width \div 2)
               /\ Reflected(dots[i].y, dots[i].vy, dots'[i].y, dots'[i].vy,
                            window.height \div 2)]_vars

\* C8 witness: after an application, the dot of the example (x = 400,
\* vx = -5, its y untouched) beside a dot clamped on both axes.
C8_Witness ==
  /\ pc = "system"
  /\ done = {"apply_dot_collision"}
  /\ frame = 1
  /\ \E i \in DOMAIN dots :
       dots[i].x = 400 /\ dots[i].vx = -5 /\ dots[i].y = 0 /\ dots[i].vy = 300
  /\ \E i \in DOMAIN dots :
       dots[i].x = -400 /\ dots[i].vx = 600 /\ dots[i].y = 300 /\ dots[i].vy = 600

Near(i, j) ==
  /\ simu_conf.connect_force > 0
  /\ DistSq(dots[i], dots[j]) < simu_conf.connect_force * simu_conf.connect_force

LinesOf(i, j) == {k \in DOMAIN lines : lines[k].a = i /\ lines[k].b = j}

\* C9: connect_dot draws exactly one line for each pair of distinct dots
\* whose distance d is below connect_force, and no other line; the alpha
\* of a line is 1 - d/connect_force and lies in (0, 1]: 1 at d = 0, 1/2 at
\* d = connect_force/2.
C9_LinesOfNearPairs ==
  (pc = "system" /\ done = {"connect_dot"}) =>
    /\ \A i, j \in DOMAIN dots :
         i < j => Cardinality(LinesOf(i, j)) = IF Near(i, j) THEN 1 ELSE 0
    /\ \A k \in DOMAIN lines :
         LET l == lines[k]
             d == distance_between_points(l.from, l.to)
         IN  /\ l.a \in DOMAIN dots /\ l.b \in DOMAIN dots /\ l.a < l.b
             /\ l.from = Translation(dots[l.a])
             /\ l.to = Translation(dots[l.b])
             /\ l.alpha[2] = simu_conf.connect_force * DistScale
             /\ l.alpha[1] = l.alpha[2] - d
             /\ 0 < l.alpha[1] /\ l.alpha[1] <= l.alpha[2]
             /\ d = 0 => l.alpha[1] = l.alpha[2]
             /\ 2 * d = l.alpha[2] => 2 * l.alpha[1] = l.alpha[2]

\* C9 witness: three dots, two of them coincident (alpha 1), two at half of
\* connect_force (alpha 1/2); and in another registry two dots exactly
\* connect_force apart, with no line.
C9_Witness ==
  /\ pc = "system"
  /\ done = {"connect_dot"}
  /\ Len(dots) = 3
  /\ \/ /\ \E k \in DOMAIN lines : lines[k].alpha[1] = lines[k].alpha[2]
        /\ \E k \in DOMAIN lines : 2 * lines[k].alpha[1] = lines[k].alpha[2]
        /\ simu_conf.connect_force = 2 * CONNECT_FORCE
     \/ /\ lines = << >>
        /\ \E i, j \in DOMAIN dots :
             /\ i < j
             /\ DistSq(dots[i], dots[j])
                  = simu_conf.connect_force * simu_conf.connect_force

SpawnTurn == pc = "update" /\ done' = done \cup {"spawn_dots_on_cursor"} /\ done' # done

\* C10: when spawn_dots_on_cursor runs and finds no cursor position or no
\* world position, it queues no dot and leaves number_of_dots, the dots and
\* the rest of the configuration as they were, and the other systems still
\* have their turn; whenever it runs with a resolved cursor, after such a
\* miss too, it queues one dot and adds 1 to number_of_dots.
C10_MissedSpawnChangesNothing ==
  [][SpawnTurn =>
       IF hist'.cursor \in {"none", "unresolved"}
         THEN /\ spawn_queue' = spawn_queue
              /\ simu_conf' = simu_conf
              /\ dots' = dots
              /\ despawn_queue' = despawn_queue
              /\ done' = done \cup {"spawn_dots_on_cursor"}
         ELSE /\ Len(spawn_queue') = Len(spawn_queue) + 1
              /\ simu_conf' = [simu_conf EXCEPT !.number_of_dots = @ + 1]]_vars

\* C10 witness: a frame boundary after a gated tick that found no cursor,
\* in a later frame of which a dot was spawned, the registry holding it.
C10_Witness ==
  /\ FrameBoundary
  /\ hist.misses
  /\ hist.cursor = "ok"
  /\ Len(dots) = 1
  /\ Count = 1

KeysApplied == pc = "keys" /\ done' = {"handle_keyboard_input"}

Held(k, ks) == IF k \in ks THEN 1 ELSE 0

ConnectDelta(ks) == 2 * Held("KeyI", ks) - 2 * Held("KeyK", ks)

SpeedDelta(ks) == Held("KeyU", ks) - Held("KeyJ", ks)

SameKeys(trace) == \A i \in DOMAIN trace : trace[i] = trace[1]

\* C11: one application of handle_keyboard_input adds 2 to connect_force
\* when KeyI is held and subtracts 2 when KeyK is held (0 in all when both
\* are), adds 0.04 to speed when KeyU is held and subtracts 0.04 when KeyJ
\* is, then negates speed iff KeyR was just pressed and flips freeze_dots
\* iff KeyP was just pressed; the same keys held over n frames apply the
\* held adjustments n times and the edge keys once.
C11_KeyboardDeltas ==
  [][KeysApplied =>
       LET ks   == input'.pressed
           just == ks \ input.pressed
           n    == Len(hist'.keys)
           c0   == hist.keys_conf
       IN  /\ simu_conf'.connect_force
                = simu_conf.connect_force + ConnectDelta(ks)
           /\ simu_conf'.speed
                = (IF "KeyR" \in just THEN -1 ELSE 1)
                    * (simu_conf.speed + SpeedDelta(ks))
           /\ simu_conf'.freeze_dots
                = (simu_conf.freeze_dots # ("KeyP" \in just))
           /\ SameKeys(hist'.keys) =>
                /\ simu_conf'.connect_force
                     = c0.connect_force + n * ConnectDelta(ks)
                /\ simu_conf'.speed
                     = IF "KeyR" \in ks
                         THEN Neg(c0.speed + SpeedDelta(ks))
                                + (n - 1) * SpeedDelta(ks)
                         ELSE c0.speed + n * SpeedDelta(ks)
                /\ simu_conf'.freeze_dots
                     = (c0.freeze_dots # ("KeyP" \in ks))]_vars

\* C11 witness: KeyI, KeyK, KeyU, KeyR and KeyP held over three frames:
\* connect_force as it began, speed negated once and raised three times,
\* freeze_dots flipped once.
C11_Witness ==
  /\ pc = "keys"
  /\ hist.keys = << {"KeyI", "KeyK", "KeyU", "KeyR", "KeyP"},
                    {"KeyI", "KeyK", "KeyU", "KeyR", "KeyP"},
                    {"KeyI", "KeyK", "KeyU", "KeyR", "KeyP"} >>
  /\ simu_conf.connect_force = hist.keys_conf.connect_force
  /\ simu_conf.speed = Neg(hist.keys_conf.speed + 1) + 2
  /\ simu_conf.freeze_dots

RECURSIVE ConnectSum(_)
ConnectSum(trace) ==
  IF trace = << >> THEN 0 ELSE ConnectDelta(Head(trace)) + ConnectSum(Tail(trace))

RECURSIVE SpeedSum(_)
SpeedSum(trace) ==
  IF trace = << >> THEN 0 ELSE SpeedDelta(Head(trace)) + SpeedSum(Tail(trace))

NeverReversed(trace) == \A i \in DOMAIN trace : "KeyR" \notin trace[i]

\* C12: connect_force and speed are never clamped: after any frames of
\* held keys connect_force is its first value plus the sum of the +2 and -2
\* of the frames, and speed (KeyR never pressed) its first value plus the
\* sum of the +0.04 and -0.04, zero and negative values included; and when
\* connect_force is zero or negative connect_dot draws no line, for
\* coincident dots either.
C12_NoClampNoLines ==
  (pc = "keys") =>
    /\ simu_conf.connect_force
         = hist.keys_conf.connect_force + ConnectSum(hist.keys)
    /\ NeverReversed(hist.keys) =>
         simu_conf.speed = hist.keys_conf.speed + SpeedSum(hist.keys)
    /\ (done = {"connect_dot"} /\ simu_conf.connect_force <= 0) =>
         lines = << >>

\* C12 witness: KeyK and KeyJ held over three frames from connect_force 2
\* and speed 0.04: both went through zero and are negative, and connect_dot
\* drew no line between the two coincident dots.
C12_Witness ==
  /\ pc = "keys"
  /\ done = {"connect_dot"}
  /\ hist.keys = << {"KeyK", "KeyJ"}, {"KeyK", "KeyJ"}, {"KeyK", "KeyJ"} >>
  /\ hist.keys_conf.connect_force = 2
  /\ simu_conf.connect_force = -4
  /\ simu_conf.speed = -2
  /\ Translation(dots[1]) = Translation(dots[2])
  /\ lines = << >>

InRange(v) == simu_conf.min_vel <= v /\ v < simu_conf.max_vel

Last(q) == q[Len(q)]

\* C13: a run of spawn_dots_on_cursor that resolves the cursor queues
\* exactly one dot, at the world position of the cursor, with each velocity
\* component in [min_vel, max_vel), and adds exactly 1 to number_of_dots;
\* when the frame ends the queued dot, and no other, joins the registry.
C13_SpawnOneInRange ==
  [][/\ (SpawnTurn /\ hist'.cursor = "ok") =>
         /\ spawn_queue' = Append(spawn_queue, Last(spawn_queue'))
         /\ Translation(Last(spawn_queue')) = hist'.cursor_at
         /\ InRange(Last(spawn_queue').vx)
         /\ InRange(Last(spawn_queue').vy)
         /\ simu_conf'.number_of_dots = simu_conf.number_of_dots + 1
     /\ (pc = "update" /\ pc' = "idle") =>
         /\ Len(spawn_queue) <= 1
         /\ Len(dots') = Len(dots) - Cardinality(despawn_queue) + Len(spawn_queue)
         /\ \A k \in DOMAIN spawn_queue :
              dots'[Len(dots') - Len(spawn_queue) + k] = spawn_queue[k]]_vars

\* C13 witness: the frame ended after a spawn at the corner of the window
\* with the velocity (MIN_VEL, 300): one dot, counted once.
C13_Witness ==
  /\ FrameBoundary
  /\ hist.cursor = "ok"
  /\ hist.cursor_at = [x |-> -400, y |-> 300]
  /\ Len(dots) = 1
  /\ Translation(dots[1]) = hist.cursor_at
  /\ dots[1].vx = MIN_VEL
  /\ dots[1].vy = 300
  /\ Count = 1

TurnOf(s) == pc = "update" /\ s \notin done /\ s \in done'

Abs(v) == IF v < 0 THEN Neg(v) ELSE v

InWindow(p) ==
  /\ Abs(p.x) <= window.width \div 2
  /\ Abs(p.y) <= window.height \div 2

\* C14: in every frame apply_dot_velocity has its turn before
\* apply_dot_collision and apply_dot_collision before connect_dot, so that
\* every position connect_dot reads and every end of a line it draws lies
\* within the window of that frame (|x| <= width/2, |y| <= height/2),
\* whatever the delta, the speed (negative too) and the velocity.
C14_ConnectorReadsInWindow ==
  [][/\ TurnOf("apply_dot_collision") => "apply_dot_velocity" \in done
     /\ TurnOf("connect_dot") =>
         /\ {"apply_dot_velocity", "apply_dot_collision"} \subseteq done
         /\ \A i \in DOMAIN dots : InWindow(dots[i])
         /\ \A k \in DOMAIN lines' :
              InWindow(lines'[k].from) /\ InWindow(lines'[k].to)]_vars

\* C14 witness: in a frozen frame connect_dot drew a line from (400, 0),
\* where apply_dot_collision put the dot left at (401, 0), to the dot at
\* the centre.
C14_Witness ==
  /\ pc = "update"
  /\ "connect_dot" \in done
  /\ simu_conf.freeze_dots
  /\ frame = 1
  /\ \E k \in DOMAIN lines :
       \/ lines[k].from = [x |-> 400, y |-> 0] /\ lines[k].to = [x |-> 0, y |-> 0]
       \/ lines[k].to = [x |-> 400, y |-> 0] /\ lines[k].from = [x |-> 0, y |-> 0]

\* C15: as long as a dot is in the registry, through any frames, key
\* presses and reflections, the absolute value of each component of its
\* velocity is the one it was spawned with: a component changes by sign
\* only.
C15_VelocityMagnitudeKept ==
  /\ Len(hist.born) = Len(dots)
  /\ \A i \in DOMAIN dots :
       /\ Abs(dots[i].vx) = Abs(hist.born[i][1])
       /\ Abs(dots[i].vy) = Abs(hist.born[i][2])

\* C15 witness: a dot spawned with velocity (MIN_VEL, 300) has been
\* reflected on both axes, in a frame in which KeyR reversed the speed.
C15_Witness ==
  /\ FrameBoundary
  /\ frame = 2
  /\ simu_conf.speed < 0
  /\ Len(dots) >= 1
  /\ hist.born[1] = << MIN_VEL, 300 >>
  /\ dots[1].vx = Neg(MIN_VEL)
  /\ dots[1].vy = -300

Expired == TimerPeriod(hist.clock) > TimerPeriod(hist.clock - input.delta)

\* C16: at most one dot is spawned in a frame, a frame whose delta spans
\* two or more intervals of DRAG_SPAWN_INTERVAL ms included:
\* spawn_dots_on_cursor has at most one turn, the queue never holds more
\* than one dot and number_of_dots rises by at most 1; the timer is ticked
\* in every frame, held or not, so spawn_dots_on_cursor runs in exactly the
\* frames in which the button is held and the time since the start of the
\* application passes a multiple of DRAG_SPAWN_INTERVAL ms: the first spawn
\* of a hold comes at the next expiry, not DRAG_SPAWN_INTERVAL ms after
\* the press.
C16_OneSpawnPerFrame ==
  [][/\ simu_conf'.number_of_dots > simu_conf.number_of_dots =>
         /\ TurnOf("spawn_dots_on_cursor")
         /\ simu_conf'.number_of_dots = simu_conf.number_of_dots + 1
     /\ Len(spawn_queue') <= 1
     /\ TurnOf("spawn_dots_on_cursor") => (input.mouse /\ Expired)
     /\ (pc = "idle" /\ pc' = "update") =>
         timer' = hist'.clock % DRAG_SPAWN_INTERVAL
     /\ (pc = "update" /\ pc' = "idle") =>
         ((hist.cursor # "-") <=> (input.mouse /\ Expired))]_vars

\* C16 witness: the button is pressed in the second frame, 35 ms after the
\* start; the first spawn comes at 70 ms, 35 ms after the press; the third
\* frame lasts 140 ms, two intervals, and spawns one dot.
C16_Witness ==
  /\ FrameBoundary
  /\ input.delta = 2 * DRAG_SPAWN_INTERVAL
  /\ hist.hold = << DRAG_SPAWN_INTERVAL, 3 * DRAG_SPAWN_INTERVAL >>
  /\ hist.run_ms = 175
  /\ Len(dots) = 2
  /\ Count = 2

RECURSIVE Edges(_, _, _)
Edges(k, before, trace) ==
  IF trace = << >> THEN 0
  ELSE (IF k \in Head(trace) \ before THEN 1 ELSE 0)
         + Edges(k, Head(trace), Tail(trace))

NoSpeedKey(trace) ==
  \A i \in DOMAIN trace : trace[i] \cap {"KeyU", "KeyJ"} = {}

Odd(n) == n % 2 = 1

Sign(v) == IF v > 0 THEN 1 ELSE IF v < 0 THEN -1 ELSE 0

\* C17 as stated: for every set of keys held, an application of
\* handle_keyboard_input leaves number_of_dots, dot_size, min_vel, max_vel
\* and the position and velocity of every dot as they were; after two KeyP
\* edges freeze_dots is what it was, and after two KeyR edges the sign of
\* speed is what it was.
C17_TwoEdgesRestore ==
  [][KeysApplied =>
       LET c0 == hist.keys_conf
       IN  /\ simu_conf'.number_of_dots = simu_conf.number_of_dots
           /\ simu_conf'.dot_size = simu_conf.dot_size
           /\ simu_conf'.min_vel = simu_conf.min_vel
           /\ simu_conf'.max_vel = simu_conf.max_vel
           /\ dots' = dots
           /\ Edges("KeyP", {}, hist'.keys) = 2 =>
                simu_conf'.freeze_dots = c0.freeze_dots
           /\ Edges("KeyR", {}, hist'.keys) = 2 =>
                Sign(simu_conf'.speed) = Sign(c0.speed)]_vars

\* C17 as amended: for every set of keys held, an application of
\* handle_keyboard_input leaves number_of_dots, dot_size, min_vel, max_vel
\* and the position and velocity of every dot as they were (it writes
\* connect_force, speed, freeze_dots and the exit request only);
\* freeze_dots differs from its first value exactly after an odd number of
\* KeyP edges, so two edges restore it; and, no speed key being held, speed
\* is its first value negated once per KeyR edge, so two edges restore it
\* and its sign.
C17_KeyboardWritesOnly ==
  [][KeysApplied =>
       LET c0 == hist.keys_conf
           p  == Edges("KeyP", {}, hist'.keys)
           r  == Edges("KeyR", {}, hist'.keys)
       IN  /\ simu_conf'.number_of_dots = simu_conf.number_of_dots
           /\ simu_conf'.dot_size = simu_conf.dot_size
           /\ simu_conf'.min_vel = simu_conf.min_vel
           /\ simu_conf'.max_vel = simu_conf.max_vel
           /\ dots' = dots
           /\ spawn_queue' = spawn_queue /\ despawn_queue' = despawn_queue
           /\ simu_conf'.freeze_dots = (c0.freeze_dots # Odd(p))
           /\ NoSpeedKey(hist'.keys) =>
                simu_conf'.speed = IF Odd(r) THEN Neg(c0.speed) ELSE c0.speed]_vars

\* C17 witness: KeyR and KeyP pressed, released and pressed again, with
\* KeyI held throughout: speed and freeze_dots are back at their first
\* values, the dots and number_of_dots as they were.
C17_Witness ==
  /\ pc = "keys"
  /\ hist.keys = << {"KeyR", "KeyP", "KeyI"}, {"KeyI"}, {"KeyR", "KeyP", "KeyI"} >>
  /\ simu_conf.speed = hist.keys_conf.speed
  /\ simu_conf.freeze_dots = hist.keys_conf.freeze_dots
  /\ simu_conf.connect_force = hist.keys_conf.connect_force + 6
  /\ simu_conf.number_of_dots = Len(dots)
  /\ dots = KeysDots

============================================================================
